---- MODULE Spec2Model ----
(***************************************************************************)
(* EcoQuest backend (backend/main.py): users, challenges and submissions  *)
(* in a SQLite store, bcrypt credentials, HS256 bearer tokens, and the    *)
(* routes register, login, create_challenge and submit.                   *)
(*                                                                         *)
(* A request occupies a handler slot and walks through the statements of  *)
(* its route.  A query reads the committed rows.  The rows written by one *)
(* db.commit() become visible together (one SQLite transaction), and not  *)
(* at all when the process dies before the commit.  Values a handler has  *)
(* read stay in its session objects until its own commit.                 *)
(*                                                                         *)
(* Spec     requests overlap freely; the process may die and restart.     *)
(* SpecSeq  requests do not overlap; the last two responses are logged.   *)
(* SpecTok  requests do not overlap; the clock advances.                  *)
(***************************************************************************)
EXTENDS Integers, Sequences, FiniteSets, TLC

\* ------------------------------------------------------------------ bounds
NumHandlers == 2
MaxChallenges == 2
MaxSubs == 2
MaxTokens == 2
MaxNow == 7203

\* --------------------------------------------------------------- constants
ACCESS_TOKEN_EXPIRE_MINUTES == 60
SECRET_KEY == "ecoquestsecret"

Handlers == 1..NumHandlers
Usernames == {"admin", "alice"}
Passwords == {"admin123", "pw1"}
Titles == {"Recycle"}
Descriptions == {"Recycle 1kg"}
PointValues == {-5, 10, 20}
ProofTexts == {"photo"}
ChallengeIds == 1..(MaxChallenges + 1)

VARIABLES users, challenges, submissions, req, issued, now, resp, hist

vars == <<users, challenges, submissions, req, issued, now, resp, hist>>

\* ------------------------------------------------------------- credentials
\* pwd_context.hash / pwd_context.verify: a one-way hash that verifies only
\* against the password it was made from.
Hash(password) == <<"bcrypt", password>>
Verify(password, hashed) == hashed = Hash(password)

\* ------------------------------------------------------------------ tokens
\* The clock (now) counts half seconds.
\* timedelta(minutes=...), in half seconds
Timedelta(minutes) == minutes * 60 * 2
\* timegm(d.utctimetuple()): d in whole seconds since the epoch, the fraction
\* dropped; jwt.encode writes exp with it and jwt.decode reads the clock with it
Timegm(d) == d \div 2

\* jwt.encode of {"sub": ..., "exp": utcnow + expires_delta} under SECRET_KEY
CreateAccessToken(sub, expires_delta) ==
    [kind |-> "jwt", sub |-> sub, exp |-> Timegm(now + expires_delta), key |-> SECRET_KEY]

\* tokens no login issued: not a JWT at all, and a JWT signed with another key
GarbageToken == [kind |-> "garbage", sub |-> "", exp |-> 0, key |-> ""]
ForgedToken == [kind |-> "jwt", sub |-> "admin", exp |-> MaxNow, key |-> "notthesecret"]

TokenExpiredAtExp(tok, t) == tok.exp <= Timegm(t)
\* the exp check of jwt.decode: expired once the clock's second is past exp
TokenExpired(tok, t) == tok.exp < Timegm(t)

\* jwt.decode(token, SECRET_KEY, algorithms=[ALGORITHM]): the exception it
\* raises ("none": it returns the payload); the signature is checked first
JwtDecode(tok, t) ==
    IF tok.kind # "jwt" \/ tok.key # SECRET_KEY THEN "JWTError"
    ELSE IF TokenExpired(tok, t) THEN "ExpiredSignatureError"
    ELSE "none"

\* The Authorization header: absent, or the words of "<scheme> <token>".
NoHeader == <<>>
StartsWithBearer(authorization) ==
    Len(authorization) >= 2 /\ authorization[1] = "Bearer"

\* ------------------------------------------------------------------- store
\* db.query(User).filter(User.username == username).first(): the row id, 0 for None
UserByName(us, username) ==
    IF \E i \in 1..Len(us) : us[i].username = username
    THEN CHOOSE i \in 1..Len(us) :
            /\ us[i].username = username
            /\ \A j \in 1..Len(us) : us[j].username = username => i <= j
    ELSE 0

NamesOf(us) == {us[i].username : i \in 1..Len(us)}

AdminRow == [username |-> "admin", hashed_password |-> Hash("admin123"),
             role |-> "admin", points |-> 0]

SeedAdminAgain(us) == Append(us, AdminRow)
\* seed_admin: insert the admin row unless a row named admin exists
SeedAdmin(us) == IF UserByName(us, "admin") = 0 THEN Append(us, AdminRow) ELSE us

\* User(username=..., hashed_password=pwd_context.hash(...), role="student"),
\* points from the column default
NewUser(username, password) ==
    [username |-> username, hashed_password |-> Hash(password),
     role |-> "student", points |-> 0]

\* Challenge(title=ch.title, description=ch.description, points=ch.points)
NewChallenge(r) ==
    [title |-> r.title, description |-> r.description, points |-> r.points]

\* Submission(proof_text=..., user_id=current_user.id, challenge_id=..., status="completed")
NewSubmission(r) ==
    [proof_text |-> r.proof_text, status |-> "completed",
     user_id |-> r.cu, challenge_id |-> r.challenge_id]

\* ---------------------------------------------------------------- requests
\* A request: its route (op), its inputs, where it stands (pc), and what its
\* session has loaded: the current user's id and points (cu, cuPoints), the
\* challenge's points (chPoints).  users0, ch0 and seen note how many users,
\* challenges and submissions were stored when the request came in, known
\* whether its username was.
Idle == [pc |-> "idle", op |-> "none", username |-> "", password |-> "",
         authorization |-> NoHeader, title |-> "", description |-> "",
         points |-> 0, challenge_id |-> 0, proof_text |-> "",
         cu |-> 0, cuPoints |-> 0, chPoints |-> 0,
         users0 |-> 0, known |-> FALSE, ch0 |-> 0, seen |-> 0]

NoResponse == [status |-> 0, detail |-> "", exc |-> ""]
\* no response either: the step was the start of the process
Started == [status |-> 0, detail |-> "Application startup complete", exc |-> ""]

InFlight(h) == req[h].pc # "idle"
Pending(op) ==
    Cardinality({h \in Handlers : req[h].op = op /\ req[h].pc \notin {"idle", "return"}})

\* issued holds the successful logins: the token handed out, and when.
\* The tokens clients hold:
tokens == {i.tok : i \in issued}

\* what a client can send as Authorization
Headers ==
    {NoHeader} \cup
    {<<scheme, t>> : scheme \in {"Basic", "Bearer"},
                     t \in tokens \cup {GarbageToken, ForgedToken}}

RegisterRequests ==
    {[Idle EXCEPT !.pc = "arrived", !.op = "register", !.username = u, !.password = p] :
        u \in Usernames, p \in Passwords}
LoginRequests ==
    {[Idle EXCEPT !.pc = "arrived", !.op = "login", !.username = u, !.password = p] :
        u \in Usernames, p \in Passwords}
CreateChallengeRequests ==
    {[Idle EXCEPT !.pc = "arrived", !.op = "create_challenge", !.authorization = a,
                  !.title = t, !.description = d, !.points = p] :
        a \in Headers, t \in Titles, d \in Descriptions, p \in PointValues}
SubmitRequests ==
    {[Idle EXCEPT !.pc = "arrived", !.op = "submit", !.authorization = a,
                  !.challenge_id = c, !.proof_text = x] :
        a \in Headers, c \in ChallengeIds, x \in ProofTexts}

Requests == RegisterRequests \cup LoginRequests \cup CreateChallengeRequests \cup SubmitRequests

\* the model serves a bounded number of challenges and submissions
Admissible(r) ==
    CASE r.op = "create_challenge" -> Len(challenges) + Pending("create_challenge") < MaxChallenges
      [] r.op = "submit" -> Len(submissions) + Pending("submit") < MaxSubs
      [] OTHER -> TRUE

Stamp(r) == [r EXCEPT !.users0 = Len(users), !.known = r.username \in NamesOf(users),
                      !.ch0 = Len(challenges), !.seen = Len(submissions)]

\* resp is the response the last step sent, NoResponse when it sent none
\* (Started when the step was the start of the process).
\* The response leaves the handler: raise HTTPException(...), an exception
\* nobody catches (500), or return {...}
Finish(h, status, detail, exc) ==
    /\ req' = [req EXCEPT ![h] = Idle]
    /\ resp' = [status |-> status, detail |-> detail, exc |-> exc]

\* the handler goes on to its next statement: no response yet
Continue(h, r) ==
    /\ req' = [req EXCEPT ![h] = r]
    /\ resp' = NoResponse

\* ------------------------------------------------------- get_current_user
\* the dependency's outcome: the exception it raises, or the user row id
GetCurrentUser(a) ==
    IF a = NoHeader
    THEN [status |-> 422, detail |-> "Field required", exc |-> "RequestValidationError", id |-> 0]
    ELSE IF ~StartsWithBearer(a)
    THEN [status |-> 401, detail |-> "Invalid auth header", exc |-> "HTTPException", id |-> 0]
    ELSE IF JwtDecode(a[2], now) # "none"
    THEN [status |-> 401, detail |-> "Invalid token", exc |-> JwtDecode(a[2], now), id |-> 0]
    ELSE IF a[2].sub = ""
    THEN [status |-> 401, detail |-> "Invalid token", exc |-> "HTTPException", id |-> 0]
    ELSE IF UserByName(users, a[2].sub) = 0
    THEN [status |-> 404, detail |-> "User not found", exc |-> "HTTPException", id |-> 0]
    ELSE [status |-> 200, detail |-> "", exc |-> "", id |-> UserByName(users, a[2].sub)]

\* ---------------------------------------------------------------- register
TakenNever(us, username) == FALSE
\* db.query(User).filter(User.username == req.username).first() is a row
Taken(us, username) == UserByName(us, username) # 0

\* the lookup of register: 400 when the name is taken
RegisterLookup(h, r) ==
    /\ r.op = "register"
    /\ UNCHANGED <<users, challenges, submissions, issued>>
    /\ IF Taken(users, r.username)
       THEN Finish(h, 400, "Username taken", "HTTPException")
       ELSE Continue(h, [r EXCEPT !.pc = "commit"])

\* db.add(user); db.commit(): the INSERT fails on the unique index of
\* users.username with IntegrityError, which the route does not catch
RegisterCommit(h) ==
    /\ req[h].pc = "commit" /\ req[h].op = "register"
    /\ UNCHANGED <<challenges, submissions, issued>>
    /\ IF UserByName(users, req[h].username) # 0
       THEN Finish(h, 500, "Internal Server Error", "IntegrityError") /\ UNCHANGED users
       ELSE /\ users' = Append(users, NewUser(req[h].username, req[h].password))
            /\ Continue(h, [req[h] EXCEPT !.pc = "return"])

\* ------------------------------------------------------------------- login
Login(h, r) ==
    LET id == UserByName(users, r.username) IN
    /\ r.op = "login"
    /\ UNCHANGED <<users, challenges, submissions>>
    /\ IF id = 0 \/ ~Verify(r.password, users[IF id = 0 THEN 1 ELSE id].hashed_password)
       THEN Finish(h, 400, "Invalid credentials", "HTTPException") /\ UNCHANGED issued
       ELSE /\ issued' = issued \cup
                    {[tok |-> CreateAccessToken(r.username,
                                                Timedelta(ACCESS_TOKEN_EXPIRE_MINUTES)),
                      at |-> now]}
            /\ Finish(h, 200, "bearer", "")

\* -------------------------------------------------------- create_challenge
IsAdminAnyRole(role) == TRUE
\* current_user.role != "admin" raises 403
IsAdmin(role) == role = "admin"

\* the dependencies and the role check of create_challenge
CreateChallengeCheck(h, r) ==
    LET g == GetCurrentUser(r.authorization) IN
    /\ r.op = "create_challenge"
    /\ UNCHANGED <<users, challenges, submissions, issued>>
    /\ IF g.status # 200
       THEN Finish(h, g.status, g.detail, g.exc)
       ELSE IF ~IsAdmin(users[g.id].role)
       THEN Finish(h, 403, "Only admin can create challenges", "HTTPException")
       ELSE Continue(h, [r EXCEPT !.pc = "commit", !.cu = g.id])

\* db.add(challenge); db.commit()
CreateChallengeCommit(h) ==
    /\ req[h].pc = "commit" /\ req[h].op = "create_challenge"
    /\ challenges' = Append(challenges, NewChallenge(req[h]))
    /\ Continue(h, [req[h] EXCEPT !.pc = "return"])
    /\ UNCHANGED <<users, submissions, issued>>

\* ------------------------------------------------------------------ submit
\* the dependencies of submit: current_user is loaded with its points
SubmitAuth(h, r) ==
    LET g == GetCurrentUser(r.authorization) IN
    /\ r.op = "submit"
    /\ UNCHANGED <<users, challenges, submissions, issued>>
    /\ IF g.status # 200
       THEN Finish(h, g.status, g.detail, g.exc)
       ELSE Continue(h, [r EXCEPT !.pc = "body", !.cu = g.id,
                                  !.cuPoints = users[g.id].points])

\* challenge = db.query(Challenge).filter(Challenge.id == sub.challenge_id).first()
SubmitReadChallenge(h) ==
    /\ req[h].pc = "body" /\ req[h].op = "submit"
    /\ UNCHANGED <<users, challenges, submissions, issued>>
    /\ IF req[h].challenge_id \notin 1..Len(challenges)
       THEN Finish(h, 404, "Challenge not found", "HTTPException")
       ELSE Continue(h, [req[h] EXCEPT !.pc = "commit",
                             !.chPoints = challenges[req[h].challenge_id].points])

AwardedOnly(loaded, awarded) == awarded
\* current_user.points += challenge.points, on the value the session loaded
PointsAfter(loaded, awarded) == loaded + awarded

\* current_user.points += challenge.points; db.add(submission); db.commit():
\* UPDATE users SET points = <the session's value> and the INSERT, in one transaction
SubmitCommit(h) ==
    /\ req[h].pc = "commit" /\ req[h].op = "submit"
    /\ users' = [users EXCEPT ![req[h].cu].points =
                    PointsAfter(req[h].cuPoints, req[h].chPoints)]
    /\ submissions' = Append(submissions, NewSubmission(req[h]))
    /\ Continue(h, [req[h] EXCEPT !.pc = "return"])
    /\ UNCHANGED <<challenges, issued>>

\* return {"msg": ...} after the commit
Return(h) ==
    /\ req[h].pc = "return"
    /\ Finish(h, 200, CASE req[h].op = "register" -> "User registered"
                        [] req[h].op = "create_challenge" -> "Challenge created"
                        [] OTHER -> "Challenge completed!", "")
    /\ UNCHANGED <<users, challenges, submissions, issued>>

\* ------------------------------------------------------------ the process
\* the process dies (requests in flight are lost, open transactions roll
\* back) and starts again: seed_admin() runs against the persisted store
Restart ==
    /\ users' = SeedAdmin(users)
    /\ req' = [h \in Handlers |-> Idle]
    /\ resp' = Started
    /\ UNCHANGED <<challenges, submissions, issued, now, hist>>

\* the instants the model looks at: issue times 0 and 1, the instant a token
\* issued at 0 runs out, half a second and a second after it, and the last
\* instant
Instants == {0, 1, Timedelta(ACCESS_TOKEN_EXPIRE_MINUTES),
             Timedelta(ACCESS_TOKEN_EXPIRE_MINUTES) + 1,
             Timedelta(ACCESS_TOKEN_EXPIRE_MINUTES) + 2, MaxNow}

\* time passes between two steps: the clock moves on to a later instant
Tick ==
    /\ \E t \in Instants :
          /\ now < t /\ t <= MaxNow
          /\ now' = t
    /\ resp' = NoResponse
    /\ UNCHANGED <<users, challenges, submissions, req, issued, hist>>

Init ==
    /\ users = SeedAdmin(<<>>)
    /\ challenges = <<>>
    /\ submissions = <<>>
    /\ req = [h \in Handlers |-> Idle]
    /\ issued = {}
    /\ now = 0
    /\ resp = NoResponse
    /\ hist = <<>>

\* the first statements of a route, run on the request r
Enter(h, r) ==
    \/ RegisterLookup(h, r)
    \/ Login(h, r)
    \/ CreateChallengeCheck(h, r)
    \/ SubmitAuth(h, r)

\* the later statements of a route
Proceed(h) ==
    \/ RegisterCommit(h)
    \/ CreateChallengeCommit(h)
    \/ SubmitReadChallenge(h)
    \/ SubmitCommit(h)
    \/ Return(h)

\* ---------------------------------------------------- overlapping requests
\* a free handler takes a request and runs its first statements
Serve(h) ==
    \E r \in Requests :
        ~InFlight(h) /\ Admissible(r) /\ Enter(h, [r EXCEPT !.seen = Len(submissions)])

Next ==
    \/ (\E h \in Handlers : Serve(h) \/ Proceed(h)) /\ UNCHANGED <<now, hist>>
    \/ Restart

Spec == Init /\ [][Next]_vars

\* ------------------------------------------------ non-overlapping requests
\* One request at a time: a single handler slot serves them all.
\* The request is received and its body parsed.
Arrive(h, admitted) ==
    /\ ~InFlight(h)
    /\ \E r \in admitted : req' = [req EXCEPT ![h] = Stamp(r)]
    /\ resp' = NoResponse
    /\ UNCHANGED <<users, challenges, submissions, issued>>

Handle(h) == req[h].pc = "arrived" /\ Enter(h, req[h])

\* the log of the last two responses, with the user count around each request
Observe(h) ==
    IF req'[h].pc = "idle" /\ req[h].pc # "idle"
    THEN hist' = (IF hist = <<>> THEN <<>> ELSE <<hist[Len(hist)]>>) \o
                 <<[op |-> req[h].op, username |-> req[h].username,
                    status |-> resp'.status, detail |-> resp'.detail,
                    present |-> req[h].known,
                    nBefore |-> req[h].users0, nAfter |-> Len(users')]>>
    ELSE UNCHANGED hist

NextSeq ==
    /\ Arrive(1, {r \in Requests : Admissible(r)}) \/ Handle(1) \/ Proceed(1)
    /\ Observe(1)
    /\ UNCHANGED now

SpecSeq == Init /\ [][NextSeq]_vars

\* with the clock running the model issues a bounded number of tokens
WithinTokens(r) == r.op = "login" => Cardinality(issued) < MaxTokens

NextTok ==
    \/ /\ \/ Arrive(1, {r \in Requests : Admissible(r) /\ WithinTokens(r)})
          \/ Handle(1)
          \/ Proceed(1)
       /\ UNCHANGED <<now, hist>>
    \/ Tick

SpecTok == Init /\ [][NextTok]_vars

\* ================================================================== claims
Forbidden == [status |-> 403, detail |-> "Only admin can create challenges",
              exc |-> "HTTPException"]
IsConflict(x) == x.status = 400 /\ x.detail = "Username taken"

\* number of submissions of user id to challenge c
Times(id, c) ==
    Cardinality({k \in 1..Len(submissions) :
                    submissions[k].user_id = id /\ submissions[k].challenge_id = c})

RECURSIVE SumPoints(_, _)
\* sum over the challenge ids in cs of weight[c] * challenges[c].points
SumPoints(cs, weight) ==
    IF cs = {} THEN 0
    ELSE LET c == CHOOSE x \in cs : TRUE
         IN weight[c] * challenges[c].points + SumPoints(cs \ {c}, weight)

RECURSIVE AwardedUpTo(_, _)
\* the points of the submission rows 1..n of user id, row by row
AwardedUpTo(id, n) ==
    IF n = 0 THEN 0
    ELSE AwardedUpTo(id, n - 1) +
         (IF submissions[n].user_id = id
          THEN challenges[submissions[n].challenge_id].points ELSE 0)

\* ---------------------------------------------------------------------- C1
\* C1: when one user has two Submit requests in flight at once against two
\* different challenges worth P1 and P2, and both have committed, the user's
\* stored points are the points stored before them + P1 + P2.  (h1 is the one
\* that came in first; no other submission was stored since it came in; the
\* case stated is that of two positive rewards.)
BothIncrementsApplied ==
    \A h1, h2 \in Handlers :
        ( /\ h1 # h2
          /\ req[h1].op = "submit" /\ req[h1].pc = "return"
          /\ req[h2].op = "submit" /\ req[h2].pc = "return"
          /\ req[h1].cu = req[h2].cu
          /\ req[h1].challenge_id # req[h2].challenge_id
          /\ req[h1].chPoints > 0 /\ req[h2].chPoints > 0
          /\ req[h1].seen <= req[h2].seen
          /\ Len(submissions) = req[h1].seen + 2 )
        => users[req[h1].cu].points =
              req[h1].cuPoints + req[h1].chPoints + req[h2].chPoints

\* ---------------------------------------------------------------------- C2
\* C2: in every reachable state, overlapping requests and process deaths
\* included, a user's stored points hold exactly the increments of the
\* stored Submission rows of that user: no row without its increment, no
\* increment without its row.
SubmissionIffIncrement ==
    \A id \in 1..Len(users) : users[id].points = AwardedUpTo(id, Len(submissions))

\* ---------------------------------------------------------------------- C3
\* C3: a Register that found its username free and then meets the row another
\* Register of the same username stored meanwhile fails with Conflict
\* ("Username taken") and stores nothing; usernames stay unique.
RegisterRaceLoserGetsConflict ==
    [][ /\ \A h \in Handlers :
              ( /\ req[h].op = "register" /\ req[h].pc = "commit"
                /\ Taken(users, req[h].username)
                /\ req'[h] # req[h] /\ resp' # Started )
              => (IsConflict(resp') /\ users' = users)
        /\ \A i, j \in 1..Len(users') :
              users'[i].username = users'[j].username => i = j ]_vars

\* --------------------------------------------------------------------- C10
\* C10: in every state, through restarts and requests, exactly one user row
\* has role admin, and its username is admin.
OneAdminNamedAdmin ==
    /\ Cardinality({i \in 1..Len(users) : users[i].role = "admin"}) = 1
    /\ \A i \in 1..Len(users) : users[i].role = "admin" => users[i].username = "admin"

\* the process has just restarted on a store that holds a registered student
RestartedWithStudents ==
    /\ resp = Started
    /\ \E i \in 1..Len(users) : users[i].role = "student"

\* ---------------------------------------------------------------------- C6
\* C6 as amended: with non-overlapping requests, each user's points equal the
\* sum over the user's Submissions of the submitted challenge's points: a
\* challenge submitted k times counts k times.
PointsAreSumOverSubmissions ==
    \A id \in 1..Len(users) :
        users[id].points =
            SumPoints(1..Len(challenges), [c \in 1..Len(challenges) |-> Times(id, c)])

\* C6 as claimed: each user's points equal the sum of the points of the
\* challenges for which the user has a Submission (each such challenge once).
PointsAreSumOverSubmittedChallenges ==
    \A id \in 1..Len(users) :
        users[id].points =
            SumPoints({c \in 1..Len(challenges) : Times(id, c) > 0},
                      [c \in 1..Len(challenges) |-> 1])

\* a user has submitted twice to one challenge
SubmittedTwiceToOneChallenge ==
    \E id \in 1..Len(users), c \in 1..Len(challenges) : Times(id, c) >= 2

\* ---------------------------------------------------------------------- C7
\* C7: no step lowers the stored points of any user; a new user starts with
\* 0 points; only Submit changes points.
PointsNeverDecrease ==
    [][ /\ Len(users') >= Len(users)
        /\ \A id \in 1..Len(users) : users'[id].points >= users[id].points
        /\ \A id \in (Len(users) + 1)..Len(users') : users'[id].points = 0
        /\ (\E id \in 1..Len(users) : users'[id].points # users[id].points)
              => req[1].op = "submit" ]_vars

\* ---------------------------------------------------------------------- C8
\* C8: when the last two requests were Register calls with the same username,
\* the second failed with Conflict and added no user; the first added exactly
\* one user when the name was free, and failed with Conflict, adding none,
\* when the name was already stored (admin, from seeding, included).
SecondRegisterConflicts ==
    (/\ Len(hist) = 2
     /\ hist[1].op = "register" /\ hist[2].op = "register"
     /\ hist[1].username = hist[2].username)
    => /\ IsConflict(hist[2])
       /\ hist[2].nAfter = hist[1].nAfter
       /\ IF hist[1].present
          THEN IsConflict(hist[1]) /\ hist[2].nAfter = hist[1].nBefore
          ELSE hist[1].status = 200 /\ hist[2].nAfter = hist[1].nBefore + 1

\* a free username was registered, then registered again
RegisteredFreshTwice ==
    /\ Len(hist) = 2
    /\ hist[1].op = "register" /\ hist[2].op = "register"
    /\ hist[1].username = hist[2].username
    /\ ~hist[1].present

\* ---------------------------------------------------------------------- C4
\* whether the request's token resolves to a user, and to which
Authenticated(r) ==
    IF r.pc = "arrived" THEN GetCurrentUser(r.authorization).status = 200 ELSE r.cu # 0
Caller(r) ==
    IF r.pc = "arrived" THEN GetCurrentUser(r.authorization).id ELSE r.cu
\* the handler sends its response in this step
Responds(h) == InFlight(h) /\ req'[h] = Idle /\ resp'.status # 0

\* C4: the response to a Create Challenge of an authenticated caller: for a
\* caller who is not admin it is Forbidden and the challenges are as they were
\* when the request came in; for an admin it is a success and exactly one
\* challenge, with the given title, description and points, was added.
\* Challenges are never changed or removed.
CreateChallengeIsRoleGated ==
    [][ /\ LET r == req[1] IN
           (r.op = "create_challenge" /\ Authenticated(r) /\ Responds(1))
           => IF users[Caller(r)].role # "admin"
              THEN /\ resp' = Forbidden
                   /\ challenges' = challenges
                   /\ Len(challenges) = r.ch0
              ELSE /\ resp'.status = 200
                   /\ Len(challenges') = r.ch0 + 1
                   /\ challenges'[r.ch0 + 1] =
                        [title |-> r.title, description |-> r.description,
                         points |-> r.points]
        /\ Len(challenges') >= Len(challenges)
        /\ \A c \in 1..Len(challenges) : challenges'[c] = challenges[c] ]_vars

\* a non-admin was just refused while a challenge made by the admin is stored
ForbiddenAfterAdminCreated ==
    resp = Forbidden /\ Len(challenges) >= 1

\* ---------------------------------------------------------------------- C5
\* no header, no "Bearer " prefix, or a malformed or wrongly signed token, or
\* one whose expiry second has passed
BadCredentials(a, t) ==
    \/ a = NoHeader
    \/ ~StartsWithBearer(a)
    \/ a[2].kind # "jwt"
    \/ a[2].key # SECRET_KEY
    \/ a[2].exp * 2 + 2 <= t

\* C5: a Create Challenge or Submit that comes with bad credentials fails with
\* Unauthenticated (401) and leaves users, challenges and submissions unchanged.
BadCredentialsUnauthenticated ==
    [][ LET r == req[1] IN
        ( /\ r.op \in {"create_challenge", "submit"} /\ r.pc = "arrived"
          /\ BadCredentials(r.authorization, now)
          /\ req'[1] # r )
        => /\ req'[1] = Idle
           /\ resp'.status = 401
           /\ <<users', challenges', submissions'>> = <<users, challenges, submissions>>
      ]_vars

\* ---------------------------------------------------------------------- C9
\* the TTL in half seconds
Ttl == ACCESS_TOKEN_EXPIRE_MINUTES * 120
\* a protected request presenting an issued token takes its first step
Presents(r, i) ==
    /\ r.op \in {"create_challenge", "submit"} /\ r.pc = "arrived"
    /\ StartsWithBearer(r.authorization)
    /\ r.authorization[2] = i.tok
    /\ req'[1] # r
\* the request is rejected as expired
RejectedExpired ==
    /\ req'[1] = Idle
    /\ resp'.status = 401
    /\ resp'.exc = "ExpiredSignatureError"
\* the request's token is resolved to the token's user
Accepted(r) ==
    /\ resp'.status \notin {401, 404, 422}
    /\ UserByName(users, r.authorization[2].sub) # 0
    /\ req'[1] # Idle => req'[1].cu = UserByName(users, r.authorization[2].sub)
\* a successful Login at time t hands out a token for its username
LoginIssues(r) ==
    (r.op = "login" /\ Responds(1) /\ resp'.status = 200)
    => \E i \in issued' :
          /\ i.at = now /\ i.tok.sub = r.username
          /\ i.tok.kind = "jwt" /\ i.tok.key = SECRET_KEY
          /\ issued' = issued \cup {i}

====
